---- MODULE Spec2Model ----
(***************************************************************************)
(* HawkDB (src/hawkdb.py): the database session (DatabaseConnection), and  *)
(* the query runner of the application (HawkDBApp): the interactive        *)
(* context, the worker threads and the Tk event queue between them.        *)
(***************************************************************************)
EXTENDS Integers, Sequences, FiniteSets, TLC

\* ---------------------------------------------------------------- bounds
\* Driver connections that can be open at once (handles 1..MaxConnections).
MaxConnections == 3
\* Worker threads that can be alive at once (thread slots 1..MaxWorkers).
MaxWorkers == 2

\* ------------------------------------------------------------- constants
\* Python's None as a returned value, and as the absent connection or cursor.
None == "None"
NoHandle == 0
NORMAL == "normal"
DISABLED == "disabled"

\* Outcome of one mysql.connector.connect call: "ok" or the errno it raises.
AttemptOutcomes == {"ok", "1045", "2003"}
\* Where the verification after a successful open stops (lines 56-58).
VerifyOutcomes == {"ok", "cursor_raises", "version_raises"}
\* errno of the error raised by a cursor operation on a lost connection.
LostConnection == "2013"
\* What the server answers to SELECT VERSION() in get_server_info.
VersionAnswers == {"raises", "no_row", "null", "empty", "8.0.36"}

\* Result sets the server can return: columns and rows (values as text).
ResultSets ==
    { [columns |-> <<"id">>, rows |-> <<>>],
      [columns |-> <<"id">>, rows |-> << <<"1">> >>],
      [columns |-> <<"id", "name">>, rows |-> << <<"1", "a">>, <<"2", "b">> >>] }
\* Outcome of cursor.execute + description + fetchall on an open connection.
QueryOutcomes ==
    { [kind |-> "rows", columns |-> r.columns, rows |-> r.rows] : r \in ResultSets }
    \cup { [kind |-> "driver_error", columns |-> <<>>, rows |-> <<>>],
           [kind |-> "no_result_set", columns |-> <<>>, rows |-> <<>>] }

VARIABLES
    connection,     \* DatabaseConnection.connection: None or a driver handle
    cursor,         \* DatabaseConnection.cursor: None or the handle it was made on
    is_connected,   \* DatabaseConnection.is_connected
    open,           \* driver: the handles opened and not closed
    last_call,      \* the latest call a direct caller made of a DatabaseConnection
                    \* method, and its outcome
    trail,          \* the two calls before it, oldest first
    widget,         \* HawkDBApp: state of each control (NORMAL / DISABLED)
    current_columns,\* HawkDBApp.current_columns
    current_data,   \* HawkDBApp.current_data
    worker,         \* per query: the thread running _execute_query_thread, and
                    \* the connection the session held when it was started
    after_queue,    \* Tk: callbacks scheduled with root.after(0, ...), in order
    posted,         \* per query: the callbacks its worker scheduled
    delivered,      \* per query: how many of them the event loop has run
    last_step,      \* the latest step of the application: the context that took
                    \* it, the handler run and the dialog shown or exception escaped
    exporter_call,  \* the latest use of DataExporter: its arguments and the
                    \* text it produced
    parse_call,     \* the latest _parse_host_port: the text given and the result
    config,         \* ConnectionManager.config: the parser's sections in memory
    config_file,    \* the content of connections.ini
    store_call      \* the latest call of a ConnectionManager method, its result

session_vars == <<connection, cursor, is_connected, open>>

\* The session and the driver as one value.
Session == [connection |-> connection, cursor |-> cursor,
            is_connected |-> is_connected, open |-> open]

\* The handle the driver gives the next connection it opens: a handle is the
\* name of an open connection, and a closed one's name is free again.
Handles == 1..MaxConnections
NewHandle(op) == CHOOSE h \in Handles \ op : \A g \in Handles \ op : h <= g

\* ------------------------------------------------- DatabaseConnection
\* disconnect (lines 63-69): the guard is the handle, not is_connected.
disconnect(s) ==
    IF s.connection # NoHandle
    THEN [s EXCEPT !.open = @ \ {s.connection}, !.connection = NoHandle,
                   !.cursor = NoHandle, !.is_connected = FALSE]
    ELSE s

\* A connect that raises is_connected as soon as the connection opens.
connect_flag_before_verify(s, a1, a2, v) ==
    LET s0 == IF s.is_connected THEN disconnect(s) ELSE s
        h  == NewHandle(s0.open)
        s1 == [s0 EXCEPT !.connection = h, !.open = @ \cup {h}, !.is_connected = TRUE]
        s2 == [s1 EXCEPT !.cursor = h]
        attempts == IF a1 = "ok"
                    THEN << [mode |-> "secure", outcome |-> a1] >>
                    ELSE << [mode |-> "secure", outcome |-> a1],
                            [mode |-> "ssl_disabled", outcome |-> a2] >>
    IN  IF a1 # "ok" /\ a2 # "ok"
        THEN [s |-> s0, result |-> a2, attempts |-> attempts]
        ELSE IF v = "cursor_raises"
        THEN [s |-> s1, result |-> LostConnection, attempts |-> attempts]
        ELSE IF v = "version_raises"
        THEN [s |-> s2, result |-> LostConnection, attempts |-> attempts]
        ELSE [s |-> s2, result |-> "ok", attempts |-> attempts]

\* A connect that does not retry after an authentication failure (1045).
connect_no_retry_on_auth(s, a1, a2, v) ==
    LET s0 == IF s.is_connected THEN disconnect(s) ELSE s
        h  == NewHandle(s0.open)
        s1 == [s0 EXCEPT !.connection = h, !.open = @ \cup {h}]
        s2 == [s1 EXCEPT !.cursor = h]
        attempts == IF a1 \in {"ok", "1045"}
                    THEN << [mode |-> "secure", outcome |-> a1] >>
                    ELSE << [mode |-> "secure", outcome |-> a1],
                            [mode |-> "ssl_disabled", outcome |-> a2] >>
    IN  IF a1 = "1045"
        THEN [s |-> s0, result |-> a1, attempts |-> attempts]
        ELSE IF a1 # "ok" /\ a2 # "ok"
        THEN [s |-> s0, result |-> a2, attempts |-> attempts]
        ELSE IF v = "cursor_raises"
        THEN [s |-> s1, result |-> LostConnection, attempts |-> attempts]
        ELSE IF v = "version_raises"
        THEN [s |-> s2, result |-> LostConnection, attempts |-> attempts]
        ELSE [s |-> [s2 EXCEPT !.is_connected = TRUE], result |-> "ok",
              attempts |-> attempts]

\* connect (lines 34-61) given the outcome of the secure attempt (a1), of the
\* attempt with ssl_disabled (a2, used only if made) and of the verification
\* (v): the session and driver after the call, what the call returns or
\* raises ("ok" or an errno), and the driver attempts it made.
connect(s, a1, a2, v) ==
    LET s0 == IF s.is_connected THEN disconnect(s) ELSE s
        h  == NewHandle(s0.open)
        s1 == [s0 EXCEPT !.connection = h, !.open = @ \cup {h}]
        s2 == [s1 EXCEPT !.cursor = h]
        attempts == IF a1 = "ok"
                    THEN << [mode |-> "secure", outcome |-> a1] >>
                    ELSE << [mode |-> "secure", outcome |-> a1],
                            [mode |-> "ssl_disabled", outcome |-> a2] >>
    IN  IF a1 # "ok" /\ a2 # "ok"
        THEN [s |-> s0, result |-> a2, attempts |-> attempts]
        ELSE IF v = "cursor_raises"
        THEN [s |-> s1, result |-> LostConnection, attempts |-> attempts]
        ELSE IF v = "version_raises"
        THEN [s |-> s2, result |-> LostConnection, attempts |-> attempts]
        ELSE [s |-> [s2 EXCEPT !.is_connected = TRUE], result |-> "ok",
              attempts |-> attempts]

\* An execute_query without the is_connected test of line 75.
execute_query_unguarded(s, out) ==
    IF s.cursor = NoHandle
    THEN [result |-> "AttributeError", submitted |-> FALSE, columns |-> <<>>, rows |-> <<>>]
    ELSE IF s.cursor \notin s.open \/ out.kind = "driver_error"
    THEN [result |-> "driver_error", submitted |-> TRUE, columns |-> <<>>, rows |-> <<>>]
    ELSE IF out.kind = "no_result_set"
    THEN [result |-> "TypeError", submitted |-> TRUE, columns |-> <<>>, rows |-> <<>>]
    ELSE [result |-> "ok", submitted |-> TRUE, columns |-> out.columns, rows |-> out.rows]

\* execute_query (lines 71-82): the result, and whether the driver was given
\* the statement.  A cursor made on a closed handle raises in the driver; a
\* statement with no result set has description None (TypeError, line 79).
execute_query(s, out) ==
    IF ~s.is_connected
    THEN [result |-> "NotConnected", submitted |-> FALSE, columns |-> <<>>, rows |-> <<>>]
    ELSE IF s.cursor = NoHandle
    THEN [result |-> "AttributeError", submitted |-> FALSE, columns |-> <<>>, rows |-> <<>>]
    ELSE IF s.cursor \notin s.open \/ out.kind = "driver_error"
    THEN [result |-> "driver_error", submitted |-> TRUE, columns |-> <<>>, rows |-> <<>>]
    ELSE IF out.kind = "no_result_set"
    THEN [result |-> "TypeError", submitted |-> TRUE, columns |-> <<>>, rows |-> <<>>]
    ELSE [result |-> "ok", submitted |-> TRUE, columns |-> out.columns, rows |-> out.rows]

\* get_server_info (lines 84-91): result ("ok" or an errno) and the value.
get_server_info(s, ans) ==
    IF ~s.is_connected THEN [result |-> "ok", value |-> None]
    ELSE IF s.cursor \notin s.open \/ ans = "raises"
    THEN [result |-> LostConnection, value |-> None]
    ELSE IF ans = "no_row" THEN [result |-> "ok", value |-> "Desconhecida"]
    ELSE IF ans = "null" THEN [result |-> "ok", value |-> None]
    ELSE IF ans = "empty" THEN [result |-> "ok", value |-> ""]
    ELSE [result |-> "ok", value |-> ans]

\* ------------------------------------------------------------ history
\* A call of a DatabaseConnection method: the session on entry, what the call
\* did (driver attempts, handles closed, statement submitted) and its outcome.
NoCall == [op |-> "none", result |-> "none", pre_connected |-> FALSE,
           pre_connection |-> NoHandle, submitted |-> FALSE, attempts |-> <<>>,
           closed |-> {}, value |-> None]

CallOn(s, op) == [NoCall EXCEPT !.op = op, !.pre_connected = s.is_connected,
                                !.pre_connection = s.connection]

ConnectCall(s, a1, a2, v) ==
    [CallOn(s, "connect") EXCEPT !.result = connect(s, a1, a2, v).result,
                                 !.attempts = connect(s, a1, a2, v).attempts,
                                 !.closed = s.open \ connect(s, a1, a2, v).s.open]

DisconnectCall(s) ==
    [CallOn(s, "disconnect") EXCEPT !.result = "ok",
                                    !.closed = s.open \ disconnect(s).open]

ExecuteCall(s, out) ==
    [CallOn(s, "execute_query") EXCEPT !.result = execute_query(s, out).result,
                                       !.submitted = execute_query(s, out).submitted]

ServerInfoCall(s, ans) ==
    [CallOn(s, "get_server_info") EXCEPT !.result = get_server_info(s, ans).result,
                                         !.value = get_server_info(s, ans).value]

Tag(c) == IF c.op = "connect"
          THEN (IF c.result = "ok" THEN "connect:ok" ELSE "connect:fail")
          ELSE c.op

Push(t, c) == IF c.op = "none" THEN t
              ELSE IF Len(t) < 2 THEN Append(t, Tag(c))
              ELSE <<t[2], Tag(c)>>

SetSession(s) ==
    /\ connection' = s.connection
    /\ cursor' = s.cursor
    /\ is_connected' = s.is_connected
    /\ open' = s.open

Record(c) ==
    /\ last_call' = c
    /\ trail' = Push(trail, last_call)


\* ------------------------------------------------ host field parsing
\* Text is a sequence of one-character strings.
Digits == <<"0", "1", "2", "3", "4", "5", "6", "7", "8", "9">>
IsDigit(c) == \E i \in 1..10 : Digits[i] = c
DigitValue(c) == (CHOOSE i \in 1..10 : Digits[i] = c) - 1

RECURSIVE lstrip(_)
lstrip(x) == IF x # <<>> /\ Head(x) = " " THEN lstrip(Tail(x)) ELSE x

RECURSIVE rstrip(_)
rstrip(x) == IF x # <<>> /\ x[Len(x)] = " " THEN rstrip(SubSeq(x, 1, Len(x) - 1)) ELSE x

\* str.strip()
strip(x) == rstrip(lstrip(x))

RECURSIVE DecimalValue(_, _)
DecimalValue(x, acc) ==
    IF x = <<>> THEN acc
    ELSE IF Head(x) = "_" THEN DecimalValue(Tail(x), acc)
    ELSE DecimalValue(Tail(x), 10 * acc + DigitValue(Head(x)))

\* int(text): an optional sign, then digits, single underscores between them.
py_int(x) ==
    LET y == strip(x)
        signed == y # <<>> /\ Head(y) \in {"+", "-"}
        d == IF signed THEN Tail(y) ELSE y
        wellformed ==
            /\ d # <<>>
            /\ \A i \in 1..Len(d) : IsDigit(d[i]) \/ d[i] = "_"
            /\ IsDigit(d[1]) /\ IsDigit(d[Len(d)])
            /\ \A i \in 1..(Len(d) - 1) : ~(d[i] = "_" /\ d[i + 1] = "_")
    IN  IF ~wellformed THEN [ok |-> FALSE, value |-> 0]
        ELSE [ok |-> TRUE,
              value |-> IF signed /\ Head(y) = "-" THEN 0 - DecimalValue(d, 0)
                        ELSE DecimalValue(d, 0)]

\* A parser that takes the default port when the port is not a number.
_parse_host_port_default_on_bad_port(host_str) ==
    IF \E i \in 1..Len(host_str) : host_str[i] = ":"
    THEN LET i == CHOOSE k \in 1..Len(host_str) :
                     /\ host_str[k] = ":"
                     /\ \A j \in (k + 1)..Len(host_str) : host_str[j] # ":"
             port == py_int(strip(SubSeq(host_str, i + 1, Len(host_str))))
         IN  [ok |-> TRUE, host |-> strip(SubSeq(host_str, 1, i - 1)),
              port |-> IF port.ok THEN port.value ELSE 3306]
    ELSE [ok |-> TRUE, host |-> strip(host_str), port |-> 3306]

\* __parse_host_port (lines 357-362): ok = FALSE is the ValueError.
_parse_host_port(host_str) ==
    IF \E i \in 1..Len(host_str) : host_str[i] = ":"
    THEN LET i == CHOOSE k \in 1..Len(host_str) :
                     /\ host_str[k] = ":"
                     /\ \A j \in (k + 1)..Len(host_str) : host_str[j] # ":"
             port == py_int(strip(SubSeq(host_str, i + 1, Len(host_str))))
         IN  IF port.ok
             THEN [ok |-> TRUE, host |-> strip(SubSeq(host_str, 1, i - 1)),
                   port |-> port.value]
             ELSE [ok |-> FALSE, host |-> <<>>, port |-> 0]
    ELSE [ok |-> TRUE, host |-> strip(host_str), port |-> 3306]

\* What the operator can have typed in the host and user fields.
HostInputs ==
    { <<>>,
      <<"d", "b">>,
      <<"d", "b", ":", "3", "3", "0", "7">>,
      <<"d", "b", ":", "x">> }
UserInputs == { <<>>, <<"r", "o", "o", "t">> }
\* The query text: empty, blank, or a statement.
QueryInputs == { <<" ">>, <<"S", "E", "L", "E", "C", "T", " ", "1">> }

\* ------------------------------------------------------- DataExporter
\* Longest text value drawn, and most rows of an exported result set.
MaxTextLen == 3
MaxRows == 2

\* A value of a result row as the driver returns it.  type is its Python
\* type; text the characters of a str; num the int, or the hundredths of a
\* Decimal of two places, or the 0/1 of a bool; date and time the fields of
\* a datetime.date / datetime.datetime.
TypedValue(type, text, num, date, time) ==
    [type |-> type, text |-> text, num |-> num, date |-> date, time |-> time]
NullValue == TypedValue("NoneType", <<>>, 0, <<1000, 1, 1>>, <<0, 0, 0>>)
TextValue(s) == [NullValue EXCEPT !.type = "str", !.text = s]
IntValue(n) == [NullValue EXCEPT !.type = "int", !.num = n]
BoolValue(b) == [NullValue EXCEPT !.type = "bool", !.num = IF b THEN 1 ELSE 0]
DecimalValue2(n) == [NullValue EXCEPT !.type = "Decimal", !.num = n]
DateValue(d) == [NullValue EXCEPT !.type = "date", !.date = d]
DateTimeValue(d, t) == [NullValue EXCEPT !.type = "datetime", !.date = d, !.time = t]

\* isinstance(value, cls): datetime.datetime is a subclass of datetime.date.
isinstance(value, cls) ==
    \/ value.type = cls
    \/ value.type = "datetime" /\ cls = "date"

\* str(n) of a natural number, and of an int.
RECURSIVE NatText(_)
NatText(n) == IF n < 10 THEN <<Digits[n + 1]>>
              ELSE Append(NatText(n \div 10), Digits[(n % 10) + 1])
IntText(n) == IF n < 0 THEN <<"-">> \o NatText(0 - n) ELSE NatText(n)
\* %m, %d, %H, %M, %S of strftime: two digits.
TwoDigits(n) == <<Digits[(n \div 10) + 1], Digits[(n % 10) + 1]>>

\* value.strftime('%Y-%m-%d') for the years the server stores (1000-9999).
strftime_date(d) ==
    NatText(d[1]) \o <<"-">> \o TwoDigits(d[2]) \o <<"-">> \o TwoDigits(d[3])
\* value.strftime('%Y-%m-%d %H:%M:%S')
strftime_datetime(d, t) ==
    strftime_date(d) \o <<" ">> \o TwoDigits(t[1]) \o <<":">> \o TwoDigits(t[2])
                     \o <<":">> \o TwoDigits(t[3])

\* str(value) of the other types.
str(value) ==
    IF value.type = "bool" THEN (IF value.num = 1 THEN <<"T", "r", "u", "e">>
                                 ELSE <<"F", "a", "l", "s", "e">>)
    ELSE IF value.type = "Decimal"
    THEN LET a == IF value.num < 0 THEN 0 - value.num ELSE value.num
         IN  (IF value.num < 0 THEN <<"-">> ELSE <<>>)
             \o NatText(a \div 100) \o <<".">> \o TwoDigits(a % 100)
    ELSE IntText(value.num)

\* An escaping that puts a backslash before each quote.
RECURSIVE escaped_value_backslash(_)
escaped_value_backslash(value) ==
    IF value = <<>> THEN <<>>
    ELSE (IF Head(value) = "'" THEN <<"\\", "'">> ELSE <<Head(value)>>)
         \o escaped_value_backslash(Tail(value))

\* line 118: value.replace("'", "''")
RECURSIVE escaped_value(_)
escaped_value(value) ==
    IF value = <<>> THEN <<>>
    ELSE (IF Head(value) = "'" THEN <<"'", "'">> ELSE <<Head(value)>>)
         \o escaped_value(Tail(value))

Quoted(x) == <<"'">> \o x \o <<"'">>

\* A rendering that tests for a date before it tests for a datetime.
formatted_value_date_first(value) ==
    IF value.type = "NoneType" THEN <<"N", "U", "L", "L">>
    ELSE IF isinstance(value, "str") THEN Quoted(escaped_value(value.text))
    ELSE IF isinstance(value, "date") THEN Quoted(strftime_date(value.date))
    ELSE IF isinstance(value, "datetime")
    THEN Quoted(strftime_datetime(value.date, value.time))
    ELSE str(value)

\* lines 114-125: the text appended to formatted_values for one value.
formatted_value(value) ==
    IF value.type = "NoneType" THEN <<"N", "U", "L", "L">>
    ELSE IF isinstance(value, "str") THEN Quoted(escaped_value(value.text))
    ELSE IF isinstance(value, "datetime")
    THEN Quoted(strftime_datetime(value.date, value.time))
    ELSE IF isinstance(value, "date") THEN Quoted(strftime_date(value.date))
    ELSE str(value)

\* ', '.join(parts)
RECURSIVE join(_)
join(parts) ==
    IF parts = <<>> THEN <<>>
    ELSE IF Len(parts) = 1 THEN parts[1]
    ELSE parts[1] \o <<",", " ">> \o join(Tail(parts))

\* line 128: the statement written for one record.
sql_insert(record, columns, table_name) ==
    <<"I", "N", "S", "E", "R", "T", " ", "I", "N", "T", "O", " ">> \o table_name
    \o <<" ", "(">> \o join(columns) \o <<")", " ", "V", "A", "L", "U", "E", "S", " ", "(">>
    \o join([i \in 1..Len(record) |-> formatted_value(record[i])])
    \o <<")", ";", "\n">>

\* to_sql_insert (lines 108-129): the text of the file it writes.
RECURSIVE to_sql_insert(_, _, _)
to_sql_insert(data, columns, table_name) ==
    IF data = <<>> THEN <<>>
    ELSE sql_insert(Head(data), columns, table_name)
         \o to_sql_insert(Tail(data), columns, table_name)

\* The characters of the text values drawn, and the text values.
TextAlphabet == {"a", "'", "\\", "\n"}
Texts == UNION { [1..n -> TextAlphabet] : n \in 0..MaxTextLen }

\* The values whose rendering is examined one at a time.
Values ==
    {NullValue} \cup { TextValue(s) : s \in Texts }
    \cup { IntValue(n) : n \in {0 - 7, 0, 42} }
    \cup { BoolValue(b) : b \in BOOLEAN }
    \cup { DecimalValue2(n) : n \in {0 - 5, 1250} }
    \cup { DateValue(d) : d \in {<<2024, 3, 5>>, <<1999, 12, 31>>} }
    \cup { DateTimeValue(d, t) : d \in {<<2024, 3, 5>>, <<1999, 12, 31>>},
                                 t \in {<<13, 45, 0>>, <<0, 0, 0>>} }

\* The values put in exported rows, the column lists and the table names.
RowValues == { NullValue, IntValue(1), TextValue(<<"O", "'", "B">>),
               TextValue(<<"a", "\n", "b">>) }
ColumnLists == { << <<"i", "d">> >>, << <<"i", "d">>, <<"n", "a", "m", "e">> >> }
TableNames == { <<"t">>, <<"<", "t", "a", "b", "l", "e", "_", "n", "a", "m", "e", ">">> }
Records(columns) == [1..Len(columns) -> RowValues]
DataSets(columns) == UNION { [1..n -> Records(columns)] : n \in 0..MaxRows }

NoExport == [op |-> "none", value |-> NullValue, data |-> <<>>, columns |-> <<>>,
             table_name |-> <<>>, text |-> <<>>]

\* ------------------------------------------------------ ConnectionManager
\* configparser.ConfigParser, as far as the class uses it.  A parser, and
\* the file it writes, hold sections by name; a section holds the options
\* that were set in it (keys) with their raw text.  The order of sections is
\* left out, and so is the DEFAULT section, which stays empty.
OptionKeys == {"host", "user", "password"}
SectionNames == {"Conexao_Exemplo", "prod", "dev"}
\* The names the caller saves profiles under.
ProfileNames == {"prod", "dev"}
\* The passwords drawn.
Passwords == { <<"p">>, <<"%", "%">>, <<"%">> }

AbsentSection == [present |-> FALSE, keys |-> {}, host |-> <<>>, user |-> <<>>,
                  password |-> <<>>]
NewSection(host, user, password) ==
    [present |-> TRUE, keys |-> OptionKeys, host |-> host, user |-> user,
     password |-> password]
EmptyConfig == [n \in SectionNames |-> AbsentSection]

\* value.replace('%%', '')
RECURSIVE WithoutPercentPairs(_)
WithoutPercentPairs(value) ==
    IF Len(value) < 2 THEN value
    ELSE IF value[1] = "%" /\ value[2] = "%" THEN WithoutPercentPairs(Tail(Tail(value)))
    ELSE <<Head(value)>> \o WithoutPercentPairs(Tail(value))

\* BasicInterpolation.before_set: FALSE is the ValueError for a text with a
\* % that is not part of %% (no text drawn has a %(name)s reference).
before_set(value) == \A i \in 1..Len(WithoutPercentPairs(value)) :
                         WithoutPercentPairs(value)[i] # "%"

\* BasicInterpolation.before_get: %% reads as %; ok = FALSE is the
\* InterpolationSyntaxError for any other %.
RECURSIVE before_get(_)
before_get(value) ==
    IF value = <<>> THEN [ok |-> TRUE, text |-> <<>>]
    ELSE IF Head(value) # "%"
    THEN LET r == before_get(Tail(value))
         IN  [ok |-> r.ok, text |-> IF r.ok THEN <<Head(value)>> \o r.text ELSE <<>>]
    ELSE IF Len(value) >= 2 /\ value[2] = "%"
    THEN LET r == before_get(Tail(Tail(value)))
         IN  [ok |-> r.ok, text |-> IF r.ok THEN <<"%">> \o r.text ELSE <<>>]
    ELSE [ok |-> FALSE, text |-> <<>>]

\* self.config[name] = {'host': ..., 'user': ..., 'password': ...}: the
\* section is emptied or added, then the options are set in order; a text
\* before_set refuses stops the assignment there with a ValueError.
set_section(cfg, name, host, user, password) ==
    LET ok == <<host = <<>> \/ before_set(host), user = <<>> \/ before_set(user),
                password = <<>> \/ before_set(password)>>
        keys == (IF ok[1] THEN {"host"} ELSE {})
                \cup (IF ok[1] /\ ok[2] THEN {"user"} ELSE {})
                \cup (IF ok[1] /\ ok[2] /\ ok[3] THEN {"password"} ELSE {})
        section == [present |-> TRUE, keys |-> keys,
                    host |-> IF "host" \in keys THEN host ELSE <<>>,
                    user |-> IF "user" \in keys THEN user ELSE <<>>,
                    password |-> IF "password" \in keys THEN password ELSE <<>>]
    IN  [config |-> [cfg EXCEPT ![name] = section],
         raised |-> IF keys = OptionKeys THEN "none" ELSE "ValueError"]

\* self.config.read(file): the sections and options of the file are added to
\* those in memory, each value stripped of surrounding blanks; what the file
\* does not have stays in memory.
read(cfg, file) ==
    [n \in SectionNames |->
        IF ~file[n].present THEN cfg[n]
        ELSE [present |-> TRUE,
              keys |-> cfg[n].keys \cup file[n].keys,
              host |-> IF "host" \in file[n].keys THEN strip(file[n].host)
                       ELSE cfg[n].host,
              user |-> IF "user" \in file[n].keys THEN strip(file[n].user)
                       ELSE cfg[n].user,
              password |-> IF "password" \in file[n].keys THEN strip(file[n].password)
                           ELSE cfg[n].password]]

\* _ensure_config_exists (lines 140-151) when the file does not exist: the
\* parser, and the file, after it.
FirstUseConfig ==
    set_section(EmptyConfig, "Conexao_Exemplo", <<>>, <<>>, <<>>).config

\* get_connections (lines 157-159): the parser after it and the names.
get_connections(cfg, file) ==
    LET c == read(cfg, file)
    IN  [config |-> c, file |-> file,
         names |-> { n \in SectionNames : c[n].present /\ n # "DEFAULT" }]

\* save_connection (lines 161-163): _save_config writes the parser as it is.
save_connection(cfg, file, name, host, user, password) ==
    LET r == set_section(cfg, name, host, user, password)
    IN  [config |-> r.config, raised |-> r.raised,
         file |-> IF r.raised = "none" THEN r.config ELSE file]

\* dict(self.config[name]) of line 168: every option read through
\* before_get.
section_dict(section) ==
    LET h == before_get(section.host)
        u == before_get(section.user)
        p == before_get(section.password)
    IN  IF h.ok /\ u.ok /\ p.ok
        THEN [raised |-> "none",
              values |-> [section EXCEPT !.host = h.text, !.user = u.text,
                                         !.password = p.text]]
        ELSE [raised |-> "InterpolationSyntaxError", values |-> AbsentSection]

\* load_connection (lines 165-169): values.present = FALSE is None.
load_connection(cfg, file, name) ==
    LET c == read(cfg, file)
    IN  IF c[name].present
        THEN [config |-> c, file |-> file, raised |-> section_dict(c[name]).raised,
              values |-> section_dict(c[name]).values]
        ELSE [config |-> c, file |-> file, raised |-> "none", values |-> AbsentSection]

\* delete_connection (lines 171-177).
delete_connection(cfg, file, name) ==
    LET c == read(cfg, file)
        d == [c EXCEPT ![name] = AbsentSection]
    IN  IF c[name].present
        THEN [config |-> d, file |-> d, deleted |-> TRUE]
        ELSE [config |-> c, file |-> file, deleted |-> FALSE]

\* A call of the store: the method, the profile name, the exception raised,
\* the section given (save, external edit) or returned (load), the names
\* returned (list); after is the call before it, and saved the names saved or
\* added to the file and not deleted or removed from it since first use.
NoStoreCall == [op |-> "none", name |-> "none", raised |-> "none",
                section |-> AbsentSection, names |-> {}, saved |-> {},
                after |-> [op |-> "none", name |-> "none", raised |-> "none",
                           section |-> AbsentSection]]
StoreCall(op, name, raised, section, names, saved) ==
    [op |-> op, name |-> name, raised |-> raised, section |-> section,
     names |-> names, saved |-> saved,
     after |-> [op |-> store_call.op, name |-> store_call.name,
                raised |-> store_call.raised, section |-> store_call.section]]

\* ----------------------------------------- inputs of _parse_host_port
\* Longest text drawn for the host field.
MaxHostLen == 4
\* The hosts and ports written as host:port, and the texts drawn freely.
ParseHosts == { <<"d", "b">>, <<"1", "0", ".", "0", ".", "0", ".", "1">> }
ParsePorts == {1, 3306, 3307, 65535}
ParseAlphabet == {"d", ":", "7", "0", " "}
ParseTexts == UNION { [1..n -> ParseAlphabet] : n \in 0..MaxHostLen }

\* A call of _parse_host_port: the text given (input), the host and port it
\* was written from (form "pair" or "host", else <<>> and 0), the result.
NoParse == [form |-> "none", input |-> <<>>, host |-> <<>>, port |-> 0,
            result |-> [ok |-> FALSE, host |-> <<>>, port |-> 0]]

\* ------------------------------------------------------------ HawkDBApp
Widgets == {"connect_button", "disconnect_button", "execute_button",
            "export_button", "query_text"}
\* Thread slots: a slot is free again once its thread has ended and every
\* callback it scheduled has run.
QueryIds == 1..MaxWorkers

\* __toggle_interface (lines 450-454): the controls after the call.
_toggle_interface(w, connected, enabled) ==
    LET state == IF enabled THEN NORMAL ELSE DISABLED
        touched == {"execute_button", "export_button", "query_text",
                    IF ~connected THEN "connect_button" ELSE "disconnect_button"}
    IN  [x \in Widgets |-> IF x \in touched THEN state ELSE w[x]]

NoStep == [actor |-> "none", handler |-> "none", dialog |-> "none",
           code |-> "none", exception |-> "none", format |-> <<>>, method |-> <<>>]
\* A handler run by the interactive context: the dialog it shows, the error
\* code in it, the exception that escapes it.
Event(h, d, c, e) == [NoStep EXCEPT !.actor = "interactive", !.handler = h,
                                   !.dialog = d, !.code = c, !.exception = e]
\* An _export_data: the format selected, the exporter method called (none:
\* <<>>), how its write ended (code) and the dialog shown.
ExportEvent(f, m, c, d) == [Event("_export_data", d, c, "none")
                               EXCEPT !.format = f, !.method = m]
WorkerStep == [NoStep EXCEPT !.actor = "worker", !.handler = "_execute_query_thread"]

IdleWorker == [pc |-> "idle", pending |-> <<>>, conn |-> NoHandle]

\* A thread that schedules _query_failed after every query (a finally).
execute_query_thread_posts_both(result) ==
    IF result = "ok" THEN <<"_query_completed", "_query_failed">>
    ELSE <<"_query_failed">>

\* A thread whose except clause catches the driver's errors only.
execute_query_thread_posts_narrow(result) ==
    IF result = "ok" THEN <<"_query_completed">>
    ELSE IF result = "driver_error" THEN <<"_query_failed">>
    ELSE <<>>

\* _execute_query_thread (lines 400-406): the callbacks the thread schedules
\* for a result of execute_query, in order.
execute_query_thread_posts(result) ==
    IF result = "ok" THEN <<"_query_completed">> ELSE <<"_query_failed">>

\* A thread that empties the result set when the query fails.
execute_query_thread_stores_clears(res, columns, data) ==
    IF res.result = "ok" THEN <<res.columns, res.rows>> ELSE << <<>>, <<>> >>

\* _execute_query_thread, line 402: what the thread assigns to
\* (current_columns, current_data) for a result of execute_query.
execute_query_thread_stores(res, columns, data) ==
    IF res.result = "ok" THEN <<res.columns, res.rows>> ELSE <<columns, data>>

\* _query_completed / _query_failed (lines 408-418): the controls afterwards.
query_outcome_widgets(w, connected, kind) == _toggle_interface(w, connected, TRUE)

app_vars == <<widget, current_columns, current_data, worker, after_queue,
              posted, delivered, last_step>>
history_vars == <<last_call, trail>>
store_vars == <<config, config_file, store_call>>
lib_vars == <<exporter_call, parse_call, store_vars>>

vars == <<connection, cursor, is_connected, open, last_call, trail,
          widget, current_columns, current_data, worker, after_queue,
          posted, delivered, last_step, exporter_call, parse_call,
          config, config_file, store_call>>

\* The state after HawkDBApp.__init__ (lines 183-197, 275-277).
Init ==
    /\ connection = NoHandle
    /\ cursor = NoHandle
    /\ is_connected = FALSE
    /\ open = {}
    /\ last_call = NoCall
    /\ trail = <<>>
    /\ widget = [x \in Widgets |-> IF x = "disconnect_button" THEN DISABLED ELSE NORMAL]
    /\ current_columns = <<>>
    /\ current_data = <<>>
    /\ worker = [q \in QueryIds |-> IdleWorker]
    /\ after_queue = <<>>
    /\ posted = [q \in QueryIds |-> <<>>]
    /\ delivered = [q \in QueryIds |-> 0]
    /\ last_step = NoStep
    /\ exporter_call = NoExport
    /\ parse_call = NoParse
    /\ config = FirstUseConfig
    /\ config_file = FirstUseConfig
    /\ store_call = NoStoreCall

\* ------------------------------- a caller of the DatabaseConnection API
Connect ==
    \E a1 \in AttemptOutcomes, a2 \in AttemptOutcomes, v \in VerifyOutcomes :
        /\ open # Handles
        /\ SetSession(connect(Session, a1, a2, v).s)
        /\ Record(ConnectCall(Session, a1, a2, v))
        /\ UNCHANGED <<app_vars, lib_vars>>

Disconnect ==
    /\ SetSession(disconnect(Session))
    /\ Record(DisconnectCall(Session))
    /\ UNCHANGED <<app_vars, lib_vars>>

ExecuteQuery ==
    \E out \in QueryOutcomes :
        /\ Record(ExecuteCall(Session, out))
        /\ UNCHANGED <<session_vars, app_vars, lib_vars>>

GetServerInfo ==
    \E ans \in VersionAnswers :
        /\ Record(ServerInfoCall(Session, ans))
        /\ UNCHANGED <<session_vars, app_vars, lib_vars>>

Next == Connect \/ Disconnect \/ ExecuteQuery \/ GetServerInfo

Spec == Init /\ [][Next]_vars

\* ------------------------------------------ HawkDBApp: interactive context
\* Each handler runs to completion on the Tk event loop.

\* _connect_database (lines 364-375): the controls after a connect that
\* succeeded and a get_server_info that returned.
connected_widgets(w) ==
    [w EXCEPT !["connect_button"] = DISABLED, !["disconnect_button"] = NORMAL]

\* _connect_database, lines 369-375, for one outcome of the driver: the
\* session, the controls and the dialog afterwards.
connect_and_report(a1, a2, v, ans) ==
    LET c    == connect(Session, a1, a2, v)
        info == get_server_info(c.s, ans)
    IN  /\ open # Handles
        /\ SetSession(c.s)
        /\ IF c.result # "ok"
           THEN /\ last_step' = Event("_connect_database", "Erro de Conexao",
                                      c.result, "none")
                /\ UNCHANGED widget
           ELSE IF info.result # "ok"
           THEN /\ last_step' = Event("_connect_database", "Erro de Conexao",
                                      info.result, "none")
                /\ UNCHANGED widget
           ELSE /\ last_step' = Event("_connect_database", "Conectado", "none", "none")
                /\ widget' = connected_widgets(widget)

\* _connect_database (lines 364-375) and _handle_connection_error (377-382).
\* The driver's answers are drawn only as far as the call consumes them.
_connect_database ==
    \E host_var \in HostInputs, user_var \in UserInputs :
        LET host == strip(host_var)
            user == strip(user_var)
        IN  /\ widget["connect_button"] = NORMAL
            /\ UNCHANGED <<history_vars, lib_vars, current_columns, current_data, worker,
                           after_queue, posted, delivered>>
            /\ IF host = <<>> \/ user = <<>>
               THEN /\ last_step' = Event("_connect_database", "Erro", "none", "none")
                    /\ UNCHANGED <<session_vars, widget>>
               ELSE IF ~_parse_host_port(host).ok
               THEN \* line 375 reads host_name, which line 368 never bound
                    /\ last_step' = Event("_connect_database", "none", "none",
                                          "UnboundLocalError")
                    /\ UNCHANGED <<session_vars, widget>>
               ELSE \/ \E a1 \in AttemptOutcomes \ {"ok"}, a2 \in AttemptOutcomes \ {"ok"} :
                          connect_and_report(a1, a2, "ok", "raises")
                    \/ \E a1 \in AttemptOutcomes, v \in VerifyOutcomes \ {"ok"} :
                          connect_and_report(a1, "ok", v, "raises")
                    \/ \E a1 \in AttemptOutcomes, ans \in VersionAnswers :
                          connect_and_report(a1, "ok", "ok", ans)

\* _disconnect_database (lines 384-388).
_disconnect_database ==
    /\ widget["disconnect_button"] = NORMAL
    /\ SetSession(disconnect(Session))
    /\ last_step' = Event("_disconnect_database", "Desconectado", "none", "none")
    /\ widget' = [widget EXCEPT !["connect_button"] = NORMAL,
                                !["disconnect_button"] = DISABLED]
    /\ UNCHANGED <<history_vars, lib_vars, current_columns, current_data, worker, after_queue,
                   posted, delivered>>

\* The formats of the combobox (line 296), and the methods of DataExporter.
export_formats ==
    << <<"C", "S", "V">>,
       <<"E", "x", "c", "e", "l", " ", "(", "X", "L", "S", "X", ")">>,
       <<"S", "Q", "L", " ", "I", "N", "S", "E", "R", "T">> >>
DataExporterMethods ==
    { <<"t", "o", "_", "c", "s", "v">>,
      <<"t", "o", "_", "e", "x", "c", "e", "l">>,
      <<"t", "o", "_", "s", "q", "l", "_", "i", "n", "s", "e", "r", "t">> }

\* text.split(' ')[0] and text.lower()
first_word(text) ==
    IF \E i \in 1..Len(text) : text[i] = " "
    THEN SubSeq(text, 1, (CHOOSE i \in 1..Len(text) :
                             text[i] = " " /\ \A j \in 1..(i - 1) : text[j] # " ") - 1)
    ELSE text
Upper == <<"A", "B", "C", "D", "E", "F", "G", "H", "I", "J", "K", "L", "M",
           "N", "O", "P", "Q", "R", "S", "T", "U", "V", "W", "X", "Y", "Z">>
Lower == <<"a", "b", "c", "d", "e", "f", "g", "h", "i", "j", "k", "l", "m",
           "n", "o", "p", "q", "r", "s", "t", "u", "v", "w", "x", "y", "z">>
lower(text) ==
    [i \in 1..Len(text) |->
        IF \E k \in 1..26 : Upper[k] = text[i]
        THEN Lower[CHOOSE k \in 1..26 : Upper[k] = text[i]] ELSE text[i]]

\* line 444: the attribute name looked up on the exporter.
export_method_name(format_selected) ==
    <<"t", "o", "_">> \o lower(first_word(format_selected))

\* What the file dialog returns (empty: cancelled), and how the write ends.
Filenames == { <<>>, <<"o", "u", "t">> }
WriteOutcomes == {"ok", "OSError"}

\* _export_data (lines 430-448).
_export_data ==
    \E k \in 1..Len(export_formats), filename \in Filenames, w \in WriteOutcomes :
        LET format_selected == export_formats[k]
            name == export_method_name(format_selected)
        IN  /\ widget["export_button"] = NORMAL
            /\ UNCHANGED <<session_vars, history_vars, lib_vars, widget,
                           current_columns, current_data, worker, after_queue,
                           posted, delivered>>
            /\ IF current_data = <<>>
               THEN last_step' = Event("_export_data", "Aviso", "none", "none")
               ELSE IF filename = <<>>
               THEN last_step' = ExportEvent(format_selected, <<>>, "none", "none")
               ELSE IF name \notin DataExporterMethods      \* AttributeError
               THEN last_step' = ExportEvent(format_selected, <<>>, "none",
                                             "Erro na Exportacao")
               ELSE IF w # "ok"
               THEN last_step' = ExportEvent(format_selected, name, w,
                                             "Erro na Exportacao")
               ELSE last_step' = ExportEvent(format_selected, name, w,
                                             "Exportacao Concluida")

\* An _execute_query that leaves the controls as they are.
submit_widgets_untouched(w, connected) == w

\* _execute_query (lines 390-398): the controls after a query is submitted.
submit_widgets(w, connected) == _toggle_interface(w, connected, FALSE)

Finished(q) == worker[q].pc \in {"idle", "done"} /\ delivered[q] = Len(posted[q])

\* _execute_query (lines 390-398): starts a thread, in the first free slot q.
_execute_query ==
    \E query_text \in QueryInputs, q \in QueryIds :
        /\ widget["execute_button"] = NORMAL
        /\ UNCHANGED <<session_vars, history_vars, lib_vars, current_columns, current_data,
                       after_queue>>
        /\ IF ~is_connected
           THEN /\ last_step' = Event("_execute_query", "Erro", "none", "none")
                /\ UNCHANGED <<widget, worker, posted, delivered>>
           ELSE IF strip(query_text) = <<>>
           THEN /\ last_step' = Event("_execute_query", "Aviso", "none", "none")
                /\ UNCHANGED <<widget, worker, posted, delivered>>
           ELSE /\ Finished(q)
                /\ \A p \in QueryIds : p < q => ~Finished(p)
                /\ posted' = [posted EXCEPT ![q] = <<>>]
                /\ delivered' = [delivered EXCEPT ![q] = 0]
                /\ widget' = submit_widgets(widget, is_connected)
                /\ worker' = [worker EXCEPT ![q] =
                        [IdleWorker EXCEPT !.pc = "check", !.conn = connection]]
                /\ last_step' = Event("_execute_query", "none", "none", "none")

\* _query_completed / _query_failed (lines 408-418), run by the event loop
\* from the head of the after queue.
run_after ==
    /\ after_queue # <<>>
    /\ LET m == Head(after_queue)
       IN  /\ widget' = query_outcome_widgets(widget, is_connected, m.kind)
           /\ delivered' = [delivered EXCEPT ![m.q] = @ + 1]
           /\ last_step' = Event(m.kind,
                                 IF m.kind = "_query_completed" THEN "Consulta Concluida"
                                 ELSE "Erro na Consulta", "none", "none")
    /\ after_queue' = Tail(after_queue)
    /\ UNCHANGED <<session_vars, history_vars, lib_vars, current_columns, current_data,
                   worker, posted>>

\* ----------------------------------------------- HawkDBApp: worker thread
\* _execute_query_thread (lines 400-406) in three steps: the is_connected
\* test of execute_query (line 75), the driver call with the assignment of
\* its result (lines 78-82, 402), and each root.after (lines 404, 406).
thread_check(q) ==
    /\ worker[q].pc = "check"
    /\ IF is_connected
       THEN worker' = [worker EXCEPT ![q].pc = "execute"]
       ELSE worker' = [worker EXCEPT ![q].pc = "post",
                ![q].pending = execute_query_thread_posts("NotConnected")]
    /\ last_step' = WorkerStep
    /\ UNCHANGED <<session_vars, history_vars, lib_vars, widget, current_columns, current_data,
                   after_queue, posted, delivered>>

thread_execute(q) ==
    \E out \in QueryOutcomes :
        LET s   == [Session EXCEPT !.is_connected = TRUE]  \* line 75 has passed
            res == execute_query(s, out)
            st  == execute_query_thread_stores(res, current_columns, current_data)
        IN  /\ worker[q].pc = "execute"
            /\ worker' = [worker EXCEPT ![q].pc = "post",
                              ![q].pending = execute_query_thread_posts(res.result)]
            /\ current_columns' = st[1]
            /\ current_data' = st[2]
            /\ last_step' = WorkerStep
            /\ UNCHANGED <<session_vars, history_vars, lib_vars, widget, after_queue, posted,
                           delivered>>

thread_post(q) ==
    /\ worker[q].pc = "post"
    /\ IF worker[q].pending = <<>>
       THEN /\ worker' = [worker EXCEPT ![q].pc = "done"]
            /\ UNCHANGED <<after_queue, posted>>
       ELSE /\ worker' = [worker EXCEPT ![q].pending = Tail(@),
                              ![q].pc = IF Tail(worker[q].pending) = <<>>
                                        THEN "done" ELSE "post"]
            /\ after_queue' = Append(after_queue,
                   [kind |-> Head(worker[q].pending), q |-> q,
                    count |-> Len(current_data)])
            /\ posted' = [posted EXCEPT ![q] = Append(@, Head(worker[q].pending))]
    /\ last_step' = WorkerStep
    /\ UNCHANGED <<session_vars, history_vars, lib_vars, widget, current_columns,
                   current_data, delivered>>

AppNext ==
    \/ _connect_database
    \/ _disconnect_database
    \/ _export_data
    \/ _execute_query
    \/ run_after
    \/ \E q \in QueryIds : thread_check(q)
    \/ \E q \in QueryIds : thread_execute(q)
    \/ \E q \in QueryIds : thread_post(q)

AppSpec == Init /\ [][AppNext]_vars

\* The thread of a started query runs, and the event loop runs the callbacks
\* scheduled on it.
AppFairSpec ==
    /\ AppSpec
    /\ \A q \in QueryIds : WF_vars(thread_check(q) \/ thread_execute(q) \/ thread_post(q))
    /\ WF_vars(run_after)


\* ------------------------------------------- a caller of DataExporter
\* The exporter keeps no state: each behaviour makes one call of it.
\* The rendering of one value (lines 114-125).
FormatValue ==
    \E value \in Values :
        /\ exporter_call = NoExport
        /\ exporter_call' = [NoExport EXCEPT !.op = "formatted_value",
                                             !.value = value,
                                             !.text = formatted_value(value)]
        /\ UNCHANGED <<session_vars, history_vars, app_vars, parse_call, store_vars>>

\* to_sql_insert(data, columns, filename, table_name): text is the file.
ToSqlInsert ==
    \E columns \in ColumnLists, table_name \in TableNames :
        \E data \in DataSets(columns) :
            /\ exporter_call = NoExport
            /\ exporter_call' = [NoExport EXCEPT !.op = "to_sql_insert",
                     !.data = data, !.columns = columns, !.table_name = table_name,
                     !.text = to_sql_insert(data, columns, table_name)]
            /\ UNCHANGED <<session_vars, history_vars, app_vars, parse_call, store_vars>>

ExportNext == FormatValue \/ ToSqlInsert

ExportSpec == Init /\ [][ExportNext]_vars


\* ---------------------------------------- a caller of ConnectionManager
\* The host and user of the profiles drawn.
ProfileHost == <<"h">>
ProfileUser == <<"u">>

SetStore(r) ==
    /\ config' = r.config
    /\ config_file' = r.file

not_store_vars == <<session_vars, history_vars, app_vars, exporter_call, parse_call>>

SaveConnection ==
    \E name \in ProfileNames, password \in Passwords :
        LET r == save_connection(config, config_file, name, ProfileHost,
                                 ProfileUser, password)
        IN  /\ SetStore(r)
            /\ store_call' = StoreCall("save", name, r.raised,
                                 NewSection(ProfileHost, ProfileUser, password), {},
                                 IF r.raised = "none" THEN store_call.saved \cup {name}
                                 ELSE store_call.saved)
            /\ UNCHANGED not_store_vars

LoadConnection ==
    \E name \in SectionNames :
        LET r == load_connection(config, config_file, name)
        IN  /\ SetStore(r)
            /\ store_call' = StoreCall("load", name, r.raised, r.values, {},
                                       store_call.saved)
            /\ UNCHANGED not_store_vars

DeleteConnection ==
    \E name \in SectionNames :
        LET r == delete_connection(config, config_file, name)
        IN  /\ SetStore(r)
            /\ store_call' = StoreCall("delete", name, "none", AbsentSection, {},
                                       store_call.saved \ {name})
            /\ UNCHANGED not_store_vars

GetConnections ==
    LET r == get_connections(config, config_file)
    IN  /\ SetStore(r)
        /\ store_call' = StoreCall("list", "none", "none", AbsentSection, r.names,
                                   store_call.saved)
        /\ UNCHANGED not_store_vars

\* The application is started again: ConnectionManager.__init__ (lines
\* 135-138) with the file in place makes an empty parser and reads nothing.
Restart ==
    /\ config' = EmptyConfig
    /\ store_call' = StoreCall("init", "none", "none", AbsentSection, {},
                               store_call.saved)
    /\ UNCHANGED <<config_file, not_store_vars>>

\* Someone edits the file between two calls: a profile is added, changed or
\* removed.
ExternalEdit ==
    \E name \in ProfileNames,
       section \in {AbsentSection}
                   \cup { NewSection(ProfileHost, ProfileUser, p) : p \in Passwords } :
        /\ config_file[name] # section
        /\ config_file' = [config_file EXCEPT ![name] = section]
        /\ store_call' = StoreCall("external", name, "none", section, {},
                                   IF section.present THEN store_call.saved \cup {name}
                                   ELSE store_call.saved \ {name})
        /\ UNCHANGED <<config, not_store_vars>>

StoreNext ==
    \/ SaveConnection
    \/ LoadConnection
    \/ DeleteConnection
    \/ GetConnections
    \/ Restart
    \/ ExternalEdit

StoreSpec == Init /\ [][StoreNext]_vars


\* ------------------------------------- a caller of _parse_host_port
\* The parser keeps no state: each behaviour makes one call of it.
ParseCall(form, input, host, port) ==
    /\ parse_call = NoParse
    /\ parse_call' = [form |-> form, input |-> input, host |-> host, port |-> port,
                      result |-> _parse_host_port(input)]
    /\ UNCHANGED <<session_vars, history_vars, app_vars, exporter_call, store_vars>>

\* A host and a port written as host:port.
ParsePair ==
    \E host \in ParseHosts, port \in ParsePorts :
        ParseCall("pair", host \o <<":">> \o NatText(port), host, port)

\* A host written alone.
ParseHost ==
    \E host \in ParseHosts : ParseCall("host", host, host, 0)

\* Any text.
ParseText ==
    \E text \in ParseTexts : ParseCall("text", text, <<>>, 0)

ParseNext == ParsePair \/ ParseHost \/ ParseText

ParseSpec == Init /\ [][ParseNext]_vars


\* ------------------------------------------------------------- claims

\* C1: execute_query called while the session is Disconnected fails with the
\* not-connected error and gives nothing to the driver; in particular after
\* a successful connect followed by disconnect.
C1_DisconnectedQueryFails ==
    last_call.op = "execute_query" =>
        /\ ~last_call.pre_connected =>
               last_call.result = "NotConnected" /\ ~last_call.submitted
        /\ trail = <<"connect:ok", "disconnect">> =>
               last_call.result = "NotConnected" /\ ~last_call.submitted

C1_Witness ==
    /\ last_call.op = "execute_query"
    /\ trail = <<"connect:ok", "disconnect">>
    /\ last_call.result = "NotConnected"

\* C2: a connect that fails leaves the session Disconnected, whatever it was
\* before, and the session becomes Connected only in a connect that succeeds.
C2_FailedConnectDisconnects ==
    [][ /\ (last_call'.op = "connect" /\ last_call'.result # "ok") => ~is_connected'
        /\ (~is_connected /\ is_connected') =>
               (last_call'.op = "connect" /\ last_call'.result = "ok") ]_vars

C2_Witness ==
    /\ last_call.op = "connect"
    /\ last_call.result = LostConnection
    /\ last_call.pre_connected
    /\ ~is_connected

\* C3: the session never holds more than one open driver connection: every
\* connection it opened is closed before it opens another.
C3_AtMostOneOpenConnection == Cardinality(open) <= 1

\* C4: a connect makes a secure attempt first, a second attempt with
\* encryption disabled exactly when the first failed, never a third, and a
\* failure of the second attempt is the failure the call raises.
C4_OneFallbackAttempt ==
    last_call.op = "connect" =>
        LET a == last_call.attempts
        IN  /\ Len(a) \in {1, 2}
            /\ a[1].mode = "secure"
            /\ (Len(a) = 2) <=> (a[1].outcome # "ok")
            /\ Len(a) = 2 => a[2].mode = "ssl_disabled"
            /\ (Len(a) = 2 /\ a[2].outcome # "ok") => last_call.result = a[2].outcome

C4_Witness ==
    /\ last_call.op = "connect"
    /\ Len(last_call.attempts) = 2
    /\ last_call.attempts[1].outcome = "1045"
    /\ last_call.attempts[2].outcome = "2003"
    /\ last_call.result = "2003"

\* C5: disconnect on a session that is already Disconnected raises nothing,
\* closes nothing and leaves the session as it was.
C5_DisconnectIdempotent ==
    (last_call.op = "disconnect" /\ ~last_call.pre_connected) =>
        /\ last_call.result = "ok"
        /\ last_call.closed = {}
        /\ connection = last_call.pre_connection
        /\ ~is_connected

\* A query is outstanding from its submission until its outcome is delivered.
Outstanding(q) == worker[q].pc # "idle" /\ delivered[q] = 0

\* C6: at most one query is outstanding, and while one is outstanding the
\* control that starts a query is disabled.
C6_OneOutstandingQuery ==
    /\ Cardinality({q \in QueryIds : Outstanding(q)}) <= 1
    /\ (\E q \in QueryIds : Outstanding(q)) => widget["execute_button"] = DISABLED

C6_Witness ==
    \E q \in QueryIds :
        /\ Outstanding(q)
        /\ worker[q].pc = "done"
        /\ after_queue # <<>>
        /\ widget["execute_button"] = DISABLED

\* The callbacks of query q waiting on the event loop.
Waiting(q) == Cardinality({i \in 1..Len(after_queue) : after_queue[i].q = q})

\* C7: the thread of a query schedules exactly one callback, _query_completed
\* or _query_failed, and the event loop runs it exactly once.
C7_OneTerminalMessage ==
    /\ [](\A q \in QueryIds :
            /\ Len(posted[q]) <= 1
            /\ worker[q].pc = "done" => Len(posted[q]) = 1
            /\ delivered[q] + Waiting(q) = Len(posted[q]))
    /\ \A q \in QueryIds : (worker[q].pc = "done" /\ delivered[q] = 0) ~> (delivered[q] = 1)

C7_Witness ==
    \E q \in QueryIds :
        /\ worker[q].pc = "done"
        /\ posted[q] = <<"_query_failed">>
        /\ delivered[q] = 1
        /\ Waiting(q) = 0

\* The controls of the query interface.
QueryControls == {"execute_button", "export_button", "query_text"}

\* C8: the outcome of every submitted query is eventually delivered, and the
\* query interface disabled at its submission is enabled again.
C8_OutcomeDelivered ==
    \A q \in QueryIds :
        Outstanding(q) ~>
            (delivered[q] = 1 /\ \A x \in QueryControls : widget[x] = NORMAL)

C8_Witness ==
    \E q \in QueryIds :
        /\ delivered[q] = 1
        /\ last_step.handler = "_query_completed"
        /\ \A x \in QueryControls : widget[x] = NORMAL

\* C9: the current columns and rows and the state of the controls change
\* only in steps of the interactive context.
C9_ResultChangesOnInteractiveContext ==
    [][ (current_columns' # current_columns \/ current_data' # current_data
         \/ widget' # widget) => last_step'.actor = "interactive" ]_vars

\* C10: while a query is in flight no connect or disconnect is run on the
\* session: until the thread has made its driver call the session stays
\* Connected, on the connection it held when the query was submitted.
C10_SessionUntouchedInFlight ==
    \A q \in QueryIds :
        worker[q].pc \in {"check", "execute"} =>
            /\ is_connected
            /\ connection = worker[q].conn

\* The positions of the line ends of a text, the start of its i-th line, and
\* whether the text has prefix p at position k.
LineEnds(text) == { k \in 1..Len(text) : text[k] = "\n" }
LineStart(text, i) ==
    IF i = 1 THEN 1
    ELSE 1 + CHOOSE k \in LineEnds(text) :
                 Cardinality({ m \in LineEnds(text) : m <= k }) = i - 1
HasPrefixAt(text, k, p) ==
    /\ k + Len(p) - 1 <= Len(text)
    /\ \A j \in 1..Len(p) : text[k + j - 1] = p[j]
InsertPrefix(table_name, columns) ==
    <<"I", "N", "S", "E", "R", "T", " ", "I", "N", "T", "O", " ">> \o table_name
    \o <<" ", "(">> \o join(columns) \o <<")", " ", "V", "A", "L", "U", "E", "S", " ", "(">>

\* C11: for a result set of n rows and a table name t, to_sql_insert writes
\* exactly n lines, the i-th beginning with
\* INSERT INTO t (<columns comma-joined in order>) VALUES ( -- whatever the
\* row values are, text values with line breaks included.
C11_OneLinePerRow ==
    exporter_call.op = "to_sql_insert" =>
        /\ Cardinality(LineEnds(exporter_call.text)) = Len(exporter_call.data)
        /\ \A i \in 1..Len(exporter_call.data) :
               HasPrefixAt(exporter_call.text, LineStart(exporter_call.text, i),
                           InsertPrefix(exporter_call.table_name, exporter_call.columns))

\* The single quotes of s before position i, and the number a run of
\* decimal digits of a text stands for (-1 when it is not all digits).
QuotesBefore(s, i) == Cardinality({ j \in 1..(i - 1) : s[j] = "'" })
NumberAt(text, a, b) ==
    IF b <= Len(text) /\ \A k \in a..b : IsDigit(text[k])
    THEN DecimalValue(SubSeq(text, a, b), 0) ELSE 0 - 1
WithoutPoint(text) == SelectSeq(text, LAMBDA c : c # ".")

\* C12: each value is rendered by its type: None as NULL, unquoted; a text
\* in single quotes with each single quote of it doubled and every other
\* character (a backslash too) as it is; a datetime in quotes as
\* YYYY-MM-DD HH:MM:SS, never by the rule of a date; a date in quotes as
\* YYYY-MM-DD; a number or boolean as its plain text, unquoted.
C12_ValueRendering ==
    exporter_call.op = "formatted_value" =>
        LET v == exporter_call.value
            t == exporter_call.text
            s == v.text
        IN  /\ v.type = "NoneType" => t = <<"N", "U", "L", "L">>
            /\ v.type = "str" =>
                   /\ Len(t) = Len(s) + 2 + QuotesBefore(s, Len(s) + 1)
                   /\ t[1] = "'" /\ t[Len(t)] = "'"
                   /\ \A i \in 1..Len(s) :
                          /\ t[1 + i + QuotesBefore(s, i)] = s[i]
                          /\ s[i] = "'" => t[2 + i + QuotesBefore(s, i)] = "'"
            /\ v.type = "datetime" =>
                   /\ Len(t) = 21
                   /\ t[1] = "'" /\ t[21] = "'"
                   /\ t[6] = "-" /\ t[9] = "-" /\ t[12] = " "
                   /\ t[15] = ":" /\ t[18] = ":"
                   /\ <<NumberAt(t, 2, 5), NumberAt(t, 7, 8), NumberAt(t, 10, 11)>> = v.date
                   /\ <<NumberAt(t, 13, 14), NumberAt(t, 16, 17), NumberAt(t, 19, 20)>> = v.time
            /\ v.type = "date" =>
                   /\ Len(t) = 12
                   /\ t[1] = "'" /\ t[12] = "'"
                   /\ t[6] = "-" /\ t[9] = "-"
                   /\ <<NumberAt(t, 2, 5), NumberAt(t, 7, 8), NumberAt(t, 10, 11)>> = v.date
            /\ v.type = "int" =>
                   /\ \A k \in 1..Len(t) : t[k] # "'"
                   /\ py_int(t) = [ok |-> TRUE, value |-> v.num]
            /\ v.type = "Decimal" =>
                   /\ \A k \in 1..Len(t) : t[k] # "'"
                   /\ Len(t) >= 4 /\ t[Len(t) - 2] = "."
                   /\ py_int(WithoutPoint(t)) = [ok |-> TRUE, value |-> v.num]
            /\ v.type = "bool" =>
                   t = IF v.num = 1 THEN <<"T", "r", "u", "e">>
                       ELSE <<"F", "a", "l", "s", "e">>

\* The datetime 2024-03-05 13:45:00 has been rendered.
C12_Witness ==
    /\ exporter_call.op = "formatted_value"
    /\ exporter_call.value = DateTimeValue(<<2024, 3, 5>>, <<13, 45, 0>>)
    /\ exporter_call.text = <<"'", "2", "0", "2", "4", "-", "0", "3", "-", "0", "5", " ",
                              "1", "3", ":", "4", "5", ":", "0", "0", "'">>

\* Reading the body of a quoted literal: every single quote in it must be
\* followed by a second one, and the pair stands for one quote.
RECURSIVE Undoubled(_)
Undoubled(body) ==
    IF body = <<>> THEN [ok |-> TRUE, text |-> <<>>]
    ELSE IF Head(body) # "'"
    THEN LET r == Undoubled(Tail(body))
         IN  [ok |-> r.ok, text |-> <<Head(body)>> \o r.text]
    ELSE IF Len(body) >= 2 /\ body[2] = "'"
    THEN LET r == Undoubled(Tail(Tail(body)))
         IN  [ok |-> r.ok, text |-> <<"'">> \o r.text]
    ELSE [ok |-> FALSE, text |-> <<>>]

\* C13: the literal rendered for a text value s begins and ends with a
\* single quote, has no undoubled single quote in between, and un-doubling
\* the quotes of its body gives back exactly s.
C13_TextLiteralClosed ==
    (exporter_call.op = "formatted_value" /\ exporter_call.value.type = "str") =>
        LET t == exporter_call.text
        IN  /\ Len(t) >= 2
            /\ t[1] = "'" /\ t[Len(t)] = "'"
            /\ Undoubled(SubSeq(t, 2, Len(t) - 1)) =
                   [ok |-> TRUE, text |-> exporter_call.value.text]

\* A text of a backslash, a quote and a line break has been rendered.
C13_Witness ==
    /\ exporter_call.op = "formatted_value"
    /\ exporter_call.value = TextValue(<<"\\", "'", "\n">>)
    /\ exporter_call.text = <<"'", "\\", "'", "'", "\n", "'">>

\* The exporter operation of each offered format.
ExporterOf(format_selected) ==
    IF format_selected = export_formats[1] THEN <<"t", "o", "_", "c", "s", "v">>
    ELSE IF format_selected = export_formats[2]
    THEN <<"t", "o", "_", "e", "x", "c", "e", "l">>
    ELSE <<"t", "o", "_", "s", "q", "l", "_", "i", "n", "s", "e", "r", "t">>

\* C14: an export of a non-empty result set in any of the three offered
\* formats calls the exporter operation of that format (to_csv, to_excel,
\* to_sql_insert) and ends in the success dialog when the write succeeds; no
\* export ends in the error dialog without an exporter having been called.
C14_FormatReachesItsExporter ==
    (last_step.handler = "_export_data"
        /\ last_step.dialog \in {"Exportacao Concluida", "Erro na Exportacao"}) =>
            /\ last_step.method = ExporterOf(last_step.format)
            /\ last_step.code = "ok" => last_step.dialog = "Exportacao Concluida"

\* C15: a load(name) that comes right after a save(name, host, user,
\* password) returns exactly the values saved, and a load(name) right after
\* a delete(name) returns None -- whatever calls came before.
C15_LoadAfterSaveOrDelete ==
    /\ (store_call.op = "load" /\ store_call.after.op = "save"
            /\ store_call.after.raised = "none"
            /\ store_call.after.name = store_call.name) =>
           /\ store_call.raised = "none"
           /\ store_call.section = store_call.after.section
    /\ (store_call.op = "load" /\ store_call.after.op = "delete"
            /\ store_call.after.name = store_call.name) =>
           /\ store_call.raised = "none"
           /\ ~store_call.section.present

\* C16: list() returns exactly the names of the profiles saved and not
\* deleted, never the reserved example section; on a store made on first
\* use with nothing saved it returns no name.
C16_ListIsTheSavedProfiles ==
    store_call.op = "list" =>
        /\ store_call.names = store_call.saved
        /\ "Conexao_Exemplo" \notin store_call.names

\* C17: when the file is edited from outside (a profile added, changed or
\* removed) and the next call saves or deletes a different profile, the file
\* still holds the edit afterwards; a list that follows the edit shows it.
C17_ExternalEditSurvives ==
    /\ (store_call.op \in {"save", "delete"} /\ store_call.raised = "none"
            /\ store_call.after.op = "external"
            /\ store_call.after.name # store_call.name) =>
           config_file[store_call.after.name] = store_call.after.section
    /\ (store_call.op = "list" /\ store_call.after.op = "external") =>
           (store_call.after.name \in store_call.names
               <=> store_call.after.section.present)

\* The text after the last colon of a text that has one, without the blanks
\* around it.
PortSegment(text) ==
    LET k == CHOOSE i \in 1..Len(text) :
                 text[i] = ":" /\ \A j \in (i + 1)..Len(text) : text[j] # ":"
    IN  strip(SubSeq(text, k + 1, Len(text)))
HasColon(text) == \E i \in 1..Len(text) : text[i] = ":"

\* C18: a host and port written as host:port parse to exactly that pair; a
\* host with no colon parses to (host, 3306); a text whose port segment is
\* empty or not a number is a parse error, never the default port.
C18_HostPortParsing ==
    /\ parse_call.form = "pair" =>
           parse_call.result = [ok |-> TRUE, host |-> parse_call.host,
                                port |-> parse_call.port]
    /\ parse_call.form = "host" =>
           parse_call.result = [ok |-> TRUE, host |-> parse_call.host, port |-> 3306]
    /\ (parse_call.form = "text" /\ HasColon(parse_call.input)
            /\ \/ PortSegment(parse_call.input) = <<>>
               \/ \E i \in 1..Len(PortSegment(parse_call.input)) :
                      ~IsDigit(PortSegment(parse_call.input)[i])) =>
           ~parse_call.result.ok

\* The text "d:d", whose port segment is not a number, has been refused.
C18_Witness ==
    /\ parse_call.form = "text"
    /\ parse_call.input = <<"d", ":", "d">>
    /\ ~parse_call.result.ok

\* C19: a connection request that fails (a malformed host:port, both connect
\* attempts failing, the version verification failing) ends in the
\* connection error dialog with the raw error code in it; no exception
\* escapes the handler and no failure passes without a message.
C19_ConnectFailureReported ==
    (last_step.handler = "_connect_database"
        /\ last_step.dialog \notin {"Conectado", "Erro"}) =>
            /\ last_step.dialog = "Erro de Conexao"
            /\ last_step.exception = "none"
            /\ last_step.code # "none"

\* C20: get_server_info returns None only when the session is
\* Disconnected; called on a Connected session it returns a string, the
\* server's version, or the unknown marker when the server's answer is empty
\* (no row, a null or an empty version).
C20_ServerInfoNoneOnlyDisconnected ==
    (last_call.op = "get_server_info" /\ last_call.result = "ok") =>
        /\ last_call.value = None <=> ~last_call.pre_connected
        /\ last_call.pre_connected => last_call.value # ""

\* No query is in flight: every thread has ended and every callback it
\* scheduled has run.
NoQueryInFlight == \A q \in QueryIds : Finished(q)

\* C21: whenever no query is in flight the controls agree with the session:
\* disconnect_button is enabled exactly when the session is Connected and
\* connect_button exactly when it is Disconnected.
C21_ControlsAgreeWithSession ==
    NoQueryInFlight =>
        /\ widget["disconnect_button"] = NORMAL <=> is_connected
        /\ widget["connect_button"] = NORMAL <=> ~is_connected

\* C22: the current columns and rows change only in the step of a thread
\* whose execute_query returned, and then to the columns and rows of one
\* result set together; a query that fails, a disconnect and every other
\* step leave both as they are.
C22_FailedQueryKeepsResult ==
    [][ <<current_columns, current_data>>' # <<current_columns, current_data>> =>
            /\ \E q \in QueryIds :
                   /\ worker[q].pc = "execute"
                   /\ worker'[q].pending = <<"_query_completed">>
            /\ \E r \in ResultSets :
                   /\ current_columns' = r.columns
                   /\ current_data' = r.rows ]_vars

\* A query has failed while the result set of an earlier one is held.
C22_Witness ==
    /\ current_data # <<>>
    /\ \E q \in QueryIds : posted[q] = <<"_query_failed">>

====
